---- MODULE Spec2Model ----
(***************************************************************************)
(* State-machine model of TwilioVideoConferenceEngine                      *)
(* (src/unnamed/part_001, lines 132-893) together with the preference      *)
(* store (localStorage) and the conferencing transport (twilio-video) it   *)
(* drives.  JavaScript runs one callback at a time, so every action below  *)
(* is one synchronous block of the source: an API call up to its first     *)
(* suspension point, a promise continuation, or one listener dispatch of   *)
(* a native transport event.                                               *)
(***************************************************************************)
EXTENDS Integers, Sequences, FiniteSets, TLC

\* ------------------------------------------------------------------ bounds
\* Number of Video.connect invocations explored (one transport room each).
MaxRooms == 2
\* Number of sessions (connect calls) of the session-level specification.
MaxSessions == 1
\* Number of remote participants the transport brings in, over all rooms.
MaxRemotes == 1
\* Native subscribe (and unsubscribe) events explored on one track.
MaxNative == 2
\* Screen-capture tracks createScreenTrack hands out.
MaxScreens == 2
\* Microphone (camera) publications the local participant holds at a time
\* in the local-media specification.
MaxLocalTracks == 1
\* The same in the specification of repeated turn-ons.
MaxPublished == 2

Rooms == 1..MaxRooms
Remotes == 1..MaxRemotes
ScreenIds == 1..MaxScreens

\* ------------------------------------------------------------- value space
\* currentRoom before its first assignment (declared, never set).
UndefinedRoom == 0
\* currentRoom after leaveRoom cleared it.
NullRoom == -1

\* The participant tag of the local participant of a room.
Local == 0
\* Payload tag of a notification that names no participant (null payload).
Nobody == -1

\* currentScreenTrack before its first assignment, and after stopScreenShare
\* cleared it.
UndefinedTrack == 0
NullTrack == -1

Kinds == {"audio", "video"}

\* A deviceId field: missing, an explicit identifier, or { exact: value }.
NoDev == [tag |-> "none", val |-> "null"]
Explicit(d) == [tag |-> "id", val |-> d]
Exact(v) == [tag |-> "exact", val |-> v]

\* JavaScript truthiness of a deviceId field: a non-empty string and an
\* object ({ exact: null } included) are truthy, undefined is not.
DevTruthy(dev) == dev.tag # "none"

\* One media section (connectOptions.audio / connectOptions.video).
NoSection == [present |-> FALSE, deviceId |-> NoDev]
Section(dev) == [present |-> TRUE, deviceId |-> dev]

\* The localStorage keys the engine and the media module use for input
\* devices, and the values localStorage.getItem can return for them.
StoreKeys == {"audioInputDeviceId", "videoDeviceId", "audioDeviceId"}
AudioIds == {"mic1"}
VideoIds == {"cam1", "cam2"}

\* The caller's literal connectOptions objects.
OptionInputs ==
  { [audio |-> a, video |-> v] :
      a \in {NoSection, Section(NoDev), Section(Explicit("mic1"))},
      v \in {NoSection, Section(NoDev), Section(Explicit("cam1"))} }

EmptyOptions == [audio |-> NoSection, video |-> NoSection]

\* connectOptions as the caller passes it: undefined, or a literal object.
ConnectOptionInputs ==
  {[given |-> FALSE, val |-> EmptyOptions]}
    \cup {[given |-> TRUE, val |-> o] : o \in OptionInputs}

\* Shapes the shared defaultConnectOptions module may have when loaded.
DefaultInputs ==
  { [audio |-> a, video |-> v] :
      a \in {NoSection, Section(NoDev)}, v \in {Section(NoDev)} }

TransportErrors == {"TwilioError"}

VARIABLES
  eventCallbacks,         \* "undefined" | "null" | "registered"
  currentRoom,            \* UndefinedRoom | NullRoom | a room of Rooms
  currentConnectOptions,  \* [ref: "undefined" | "default" | "own", own: options]
  defaultConnectOptions,  \* contents of the shared default options object
  deviceIds,              \* [fetched, audio, video]: the cached preference read
  localStorage,           \* preference key -> identifier or "null"
  nextRoom,               \* the room the next Video.connect call creates
  roomState,              \* per room: unused/connecting/connected/closing/disconnected/failed
  wired,                  \* per room: the engine's listeners are installed
  roster,                 \* per room: room.participants, in insertion order
  initialRoster,          \* per room: the remote participants present at connect
  joined,                 \* per room: the remote participants that joined later
  pub,                    \* per remote participant: its track publication
  localPub,               \* per room and kind: local track published
  tally,                  \* per remote participant: native events and notifications
  currentScreenTrack,     \* UndefinedTrack | NullTrack | a track of ScreenIds
  screenTracks,           \* per screen-capture track: none/live/stopped
  pending,                \* the media operation awaiting a promise, if any
  last                    \* the block that ran last: [op, arg, result, out, sent, calls]

vars == <<eventCallbacks, currentRoom, currentConnectOptions,
          defaultConnectOptions, deviceIds, localStorage, nextRoom, roomState,
          wired, roster, initialRoster, joined, pub, localPub,
          tally, currentScreenTrack, screenTracks, pending, last>>

engineVars == <<eventCallbacks, currentRoom, currentConnectOptions,
                defaultConnectOptions, deviceIds, localStorage>>
transportVars == <<nextRoom, roomState, wired, roster,
                   initialRoster, joined, pub, localPub, tally>>
mediaVars == <<currentScreenTrack, screenTracks, pending>>

\* --------------------------------------------------------------- helpers
\* The conferenceEvents table.
conferenceEvents ==
  {"RoomConnected", "RoomCompleted", "ParticipantConnected",
   "ParticipantDisconnected", "ParticipantSubscribedTrack",
   "ParticipantUnsubscribedTrack", "DominantSpeakerChanged",
   "ExistingParticipantsReportingComplete", "ErrorOccured", "Debug"}

\* One notifyOfEvent call: the kind, the room and participant its payload
\* names, the media-kind tag of its track descriptor ("none": the descriptor
\* has no kind, "n/a": no track descriptor), and currentRoom at that moment.
Notif(kind, r, who, tkind, held) ==
  [kind |-> kind, room |-> r, who |-> who, tkind |-> tkind, held |-> held]

\* The member notifyOfEvent looks up for an event type: `on${eventType}`.
HandlerKey ==
  [RoomConnected |-> "onRoomConnected",
   RoomCompleted |-> "onRoomCompleted",
   ParticipantConnected |-> "onParticipantConnected",
   ParticipantDisconnected |-> "onParticipantDisconnected",
   ParticipantSubscribedTrack |-> "onParticipantSubscribedTrack",
   ParticipantUnsubscribedTrack |-> "onParticipantUnsubscribedTrack",
   DominantSpeakerChanged |-> "onDominantSpeakerChanged",
   ExistingParticipantsReportingComplete |-> "onExistingParticipantsReportingComplete",
   ErrorOccured |-> "onErrorOccured",
   Debug |-> "onDebug"]

\* The members of the object registerCallbacks returns.
registerCallbacks ==
  {"onRoomConnected", "onRoomDisconnected", "onParticipantConnected",
   "onParticipantDisconnected", "onParticipantSubscribedTrack",
   "onParticipantUnsubscribedTrack", "onDominantSpeakerChanged",
   "onExistingParticipantsReportingComplete", "onErrorOccured", "onDebug"}

\* The notifyOfEvent calls among out that find a callback when
\* eventCallbacks is the object registerCallbacks returned.
Delivered(out) ==
  SelectSeq(out, LAMBDA n : HandlerKey[n.kind] \in registerCallbacks)

\* notifyOfEvent indexes eventCallbacks: a TypeError when it is not an object.
NotifyThrows == eventCallbacks \in {"undefined", "null"}

\* An unpublished publication slot.
NoPub == [st |-> "none", kind |-> "video", atAttach |-> FALSE, mute |-> 0,
          enabled |-> TRUE]

NoTally == [nSub |-> 0, nUnsub |-> 0, eSub |-> 0, eUnsub |-> 0]

NoArgs == [audio |-> NoDev, video |-> NoDev]

Rep(n, x) == [i \in 1..n |-> x]

\* The record of the block that ran last: the operation, its input, the
\* outcome of its promise or call ("pending": still awaiting the transport),
\* the notifications it emitted in order, for a pending joinRoom the
\* device fields it handed to Video.connect (for a turn-on, the device
\* field it handed to Video.createLocal...Track), and the calls the block made on
\* the transport and on media objects, in order, each notifyOfEvent call
\* among them ("notifyOfEvent": the next entry of out;
\* "setupTrackMuteEvents": the two track.on calls of one setupTrackMuteEvents).
Ran(op, arg, result, out, calls) ==
  [op |-> op, arg |-> arg, result |-> result, out |-> out, sent |-> NoArgs,
   calls |-> calls]

Done(op, arg, result, out) ==
  Ran(op, arg, result, out, Rep(Len(out), "notifyOfEvent"))

Called(op, arg, sent) ==
  [op |-> op, arg |-> arg, result |-> "pending", out |-> <<>>, sent |-> sent,
   calls |-> <<"Video.connect">>]

\* No media operation awaits a promise.
NoPending == [op |-> "none", stage |-> "none", kind |-> "none",
              settled |-> FALSE, room |-> UndefinedRoom, track |-> UndefinedTrack]

SeqToSet(s) == { s[i] : i \in 1..Len(s) }

\* All orders (sequences without repetition) of the finite set S.
RECURSIVE Orders(_)
Orders(S) ==
  IF S = {} THEN { <<>> }
  ELSE UNION { { <<x>> \o t : t \in Orders(S \ {x}) } : x \in S }

RECURSIVE Flatten(_)
Flatten(ss) == IF ss = <<>> THEN <<>> ELSE Head(ss) \o Flatten(Tail(ss))

Count(s, P(_)) == Cardinality({ i \in 1..Len(s) : P(s[i]) })

\* ------------------------------------------------------------------ Init
Init ==
  /\ eventCallbacks = "undefined"
  /\ currentRoom = UndefinedRoom
  /\ currentConnectOptions = [ref |-> "undefined", own |-> EmptyOptions]
  /\ defaultConnectOptions \in DefaultInputs
  /\ deviceIds = [fetched |-> FALSE, audio |-> "null", video |-> "null"]
  /\ localStorage \in [StoreKeys -> {"null"}]
  /\ nextRoom = 1
  /\ roomState = [r \in Rooms |-> "unused"]
  /\ wired = [r \in Rooms |-> FALSE]
  /\ roster = [r \in Rooms |-> <<>>]
  /\ initialRoster = [r \in Rooms |-> {}]
  /\ joined = [r \in Rooms |-> {}]
  /\ pub = [p \in Remotes |-> NoPub]
  /\ localPub = [r \in Rooms |-> [k \in Kinds |-> <<>>]]
  /\ tally = [p \in Remotes |-> NoTally]
  /\ currentScreenTrack = UndefinedTrack
  /\ screenTracks = [t \in ScreenIds |-> "none"]
  /\ pending = NoPending
  /\ last = Done("construct", "none", "ok", <<>>)

\* ------------------------------------------------- preference store (API)
setItem(key, value) ==
  /\ localStorage' = [localStorage EXCEPT ![key] = value]
  /\ last' = Done("setItem", key, "ok", <<>>)
  /\ UNCHANGED <<eventCallbacks, currentRoom, currentConnectOptions,
                 defaultConnectOptions, deviceIds>>
  /\ UNCHANGED transportVars
  /\ UNCHANGED mediaVars

removeItems(keys, op) ==
  /\ localStorage' = [k \in StoreKeys |-> IF k \in keys THEN "null" ELSE localStorage[k]]
  /\ last' = Done(op, "none", "ok", <<>>)
  /\ UNCHANGED <<eventCallbacks, currentRoom, currentConnectOptions,
                 defaultConnectOptions, deviceIds>>
  /\ UNCHANGED transportVars
  /\ UNCHANGED mediaVars

assignDefaultAudioInputDeviceId(audioInputDeviceId) ==
  setItem("audioInputDeviceId", audioInputDeviceId)

assignDefaultVideoInputDeviceId(videoDeviceId) ==
  setItem("videoDeviceId", videoDeviceId)

clearDefaultAudioInputDeviceId ==
  removeItems({"audioInputDeviceId"}, "clearDefaultAudioInputDeviceId")

clearDefaultVideoInputDeviceId ==
  removeItems({"videoDeviceId"}, "clearDefaultVideoInputDeviceId")

clearAllDefaultMediaDeviceIds ==
  removeItems({"audioInputDeviceId", "videoDeviceId"},
              "clearAllDefaultMediaDeviceIds")

\* The key selectDefaultMedia writes for a media kind: `${kind}DeviceId`.
PreferenceKey(kind) == kind \o "DeviceId"

\* The device identifiers enumerateDevices can list first for a kind.
InputIds(kind) == IF kind = "audio" THEN AudioIds ELSE VideoIds

\* selectDefaultMedia(kind, render) of the media module, which the engine's
\* selectDefaultAudioSource / selectDefaultVideoSource call: deviceId is that
\* of the first device enumerated; when the enumeration or the capture of
\* that device fails (captured = FALSE) the promise rejects before the
\* write.
selectDefaultMedia(kind, deviceId, captured) ==
  /\ IF captured
     THEN /\ localStorage' = [localStorage EXCEPT ![PreferenceKey(kind)] = deviceId]
          /\ last' = Done("selectDefaultMedia", <<kind, deviceId>>, "ok", <<>>)
     ELSE /\ UNCHANGED localStorage
          /\ last' = Done("selectDefaultMedia", <<kind, deviceId>>,
                          "SelectFailed", <<>>)
  /\ UNCHANGED <<eventCallbacks, currentRoom, currentConnectOptions,
                 defaultConnectOptions, deviceIds>>
  /\ UNCHANGED transportVars
  /\ UNCHANGED mediaVars

\* The value fetchDeviceIds assigns to deviceIds.
fetchDeviceIds ==
  [fetched |-> TRUE,
   audio |-> localStorage["audioInputDeviceId"],
   video |-> localStorage["videoDeviceId"]]

\* --------------------------------------------------------------- init
init(event_callbacks) ==
  /\ IF event_callbacks = "undefined"
     THEN /\ UNCHANGED eventCallbacks
          /\ last' = Done("init", event_callbacks, "InitWithoutCallbacks", <<>>)
     ELSE /\ eventCallbacks' = event_callbacks
          /\ last' = Done("init", event_callbacks, "ok", <<>>)
  /\ UNCHANGED <<currentRoom, currentConnectOptions, defaultConnectOptions,
                 deviceIds, localStorage>>
  /\ UNCHANGED transportVars
  /\ UNCHANGED mediaVars

\* ------------------------------------------------------------ joinRoom
\* Argument checks that forget the handler registration.
ValidateJoin_NoHandlerCheck(accessToken, roomName) ==
  IF accessToken = "undefined" THEN "MissingCredentials"
  ELSE IF roomName = "undefined" THEN "MissingRoomName"
  ELSE "none"

\* The argument checks of joinRoom, in the order the code makes them.
ValidateJoin(accessToken, roomName) ==
  IF accessToken = "undefined" THEN "MissingCredentials"
  ELSE IF roomName = "undefined" THEN "MissingRoomName"
  ELSE IF eventCallbacks \in {"undefined", "null"} THEN "HandlersNotRegistered"
  ELSE "none"

\* The device-identifier resolution of joinRoom on the options object co,
\* with ids the cached deviceIds: the error it throws ("none": it goes on to
\* the transport) and the contents it leaves in the options object.
ResolveDevices(co, ids) ==
  LET a == IF co.audio.present /\ ~DevTruthy(co.audio.deviceId)
           THEN [co EXCEPT !.audio.deviceId = Exact(ids.audio)] ELSE co
      v == IF a.video.present /\ ~DevTruthy(a.video.deviceId)
           THEN [a EXCEPT !.video.deviceId = Exact(ids.video)] ELSE a
  IN  IF ~co.audio.present THEN [err |-> "NoAudioInfo", co |-> co]
      ELSE IF ~a.video.present THEN [err |-> "NoVideoInfo", co |-> a]
      ELSE IF ~DevTruthy(v.audio.deviceId) THEN [err |-> "NoAudioDevice", co |-> v]
      ELSE IF ~DevTruthy(v.video.deviceId) THEN [err |-> "NoVideoDevice", co |-> v]
      ELSE [err |-> "none", co |-> v]

\* joinRoom up to the Video.connect call (the promise stays pending).
joinRoom(accessToken, roomName, connectOptions) ==
  LET arg == [token |-> accessToken, room |-> roomName, options |-> connectOptions]
      bad == ValidateJoin(accessToken, roomName)
      co  == IF connectOptions.given THEN connectOptions.val
             ELSE defaultConnectOptions
      ids == IF deviceIds.fetched THEN deviceIds ELSE fetchDeviceIds
      res == ResolveDevices(co, ids)
  IN
  IF bad # "none"
  THEN /\ last' = Done("joinRoom", arg, bad, <<>>)
       /\ UNCHANGED engineVars
       /\ UNCHANGED transportVars
       /\ UNCHANGED mediaVars
  ELSE /\ deviceIds' = ids
       /\ UNCHANGED mediaVars
       /\ defaultConnectOptions' =
            IF connectOptions.given THEN defaultConnectOptions ELSE res.co
       /\ UNCHANGED <<eventCallbacks, currentRoom, localStorage>>
       /\ UNCHANGED <<wired, roster, initialRoster, joined, pub, localPub, tally>>
       /\ IF res.err # "none"
          THEN /\ last' = Done("joinRoom", arg, res.err, <<>>)
               /\ UNCHANGED <<currentConnectOptions, nextRoom, roomState>>
          ELSE /\ nextRoom <= MaxRooms
               /\ currentConnectOptions' =
                    IF connectOptions.given
                    THEN [ref |-> "own", own |-> res.co]
                    ELSE [ref |-> "default", own |-> EmptyOptions]
               /\ roomState' = [roomState EXCEPT ![nextRoom] = "connecting"]
               /\ nextRoom' = nextRoom + 1
               /\ last' = Called("joinRoom", arg,
                    [audio |-> res.co.audio.deviceId,
                     video |-> res.co.video.deviceId])

\* --------------------------------------------------- notification helpers
\* trackSubscribed / trackUnsubscribed / participantDisconnected, as the
\* notifyOfEvent call each makes.  trackUnsubscribed's own track.on branch
\* never runs: its argument is the { track, participant } wrapper, which has
\* no "on" member.
trackSubscribed(r, who, tkind, held) ==
  Notif("ParticipantSubscribedTrack", r, who, tkind, held)

trackUnsubscribed(r, who, tkind, held) ==
  Notif("ParticipantUnsubscribedTrack", r, who, tkind, held)

participantDisconnected(r, who, held) ==
  Notif("ParticipantDisconnected", r, who, "n/a", held)

\* Listener pairs setupTrackMuteEvents adds to a live track per call.
setupTrackMuteEvents(q) == [q EXCEPT !.mute = @ + 1]

\* A forEach body that notifies before it installs the mute listeners.
attachPublication_NotifyFirst(r, p, isRemote, q, held) ==
  LET live == q.st = "subscribed"
  IN [out |-> IF live THEN <<trackSubscribed(r, p, q.kind, held)>> ELSE <<>>,
      calls |-> IF live
                THEN <<"notifyOfEvent">>
                       \o (IF isRemote THEN <<"setupTrackMuteEvents">> ELSE <<>>)
                ELSE <<>>,
      pub |-> IF q.st = "none" THEN q
              ELSE LET m == IF isRemote /\ live THEN setupTrackMuteEvents(q) ELSE q
                   IN [m EXCEPT !.atAttach = TRUE]]

\* The forEach body of participantConnected for the publication slot q of
\* participant p: a publication that is subscribed or holds its track gets,
\* for a remote participant, the mute listeners on its track, then one
\* trackSubscribed; every publication gets the "subscribed" / "unsubscribed"
\* listeners.  The notification, the calls in order, and the slot afterwards.
attachPublication(r, p, isRemote, q, held) ==
  LET live == q.st = "subscribed"
  IN [out |-> IF live THEN <<trackSubscribed(r, p, q.kind, held)>> ELSE <<>>,
      calls |-> IF live
                THEN (IF isRemote THEN <<"setupTrackMuteEvents">> ELSE <<>>)
                       \o <<"notifyOfEvent">>
                ELSE <<>>,
      pub |-> IF q.st = "none" THEN q
              ELSE LET m == IF isRemote /\ live THEN setupTrackMuteEvents(q) ELSE q
                   IN [m EXCEPT !.atAttach = TRUE]]

\* participantConnected on a remote participant whose publication slot is q:
\* the notifications it emits, the calls it makes, and the slot with its
\* listeners installed.
participantConnected(r, p, isRemote, q, held) ==
  LET a == attachPublication(r, p, isRemote, q, held)
  IN [out |-> <<Notif("ParticipantConnected", r, p, "n/a", held)>> \o a.out,
      calls |-> <<"notifyOfEvent">> \o a.calls,
      pub |-> a.pub]

\* The publication of the local participant for kind k as participantConnected
\* finds it: it holds its track.
LocalSlot(k) == [NoPub EXCEPT !.st = "subscribed", !.kind = k]

\* A connect block that attaches the local participant as a remote one.
localParticipantConnected_AsRemote(r, held) ==
  LET a == attachPublication(r, Local, TRUE, LocalSlot("audio"), held)
      v == attachPublication(r, Local, TRUE, LocalSlot("video"), held)
  IN [out |-> <<Notif("ParticipantConnected", r, Local, "n/a", held)>>
                \o a.out \o v.out,
      calls |-> <<"notifyOfEvent">> \o a.calls \o v.calls]

\* participantConnected(room.localParticipant, false): the local audio and
\* video publications both hold their track.
localParticipantConnected(r, held) ==
  LET a == attachPublication(r, Local, FALSE, LocalSlot("audio"), held)
      v == attachPublication(r, Local, FALSE, LocalSlot("video"), held)
  IN [out |-> <<Notif("ParticipantConnected", r, Local, "n/a", held)>>
                \o a.out \o v.out,
      calls |-> <<"notifyOfEvent">> \o a.calls \o v.calls]

\* A publication of the local participant: the track's source ("mic",
\* "camera" or "screen"), the screen-capture track it carries (UndefinedTrack
\* for a microphone or camera track), and its priority.
LocalPublication(src, track, priority) ==
  [src |-> src, track |-> track, priority |-> priority]

\* The publication of the local track Video.connect created for kind k.
ConnectPub(k) ==
  LocalPublication(IF k = "audio" THEN "mic" ELSE "camera", UndefinedTrack,
                   "standard")

\* Publication slots the transport may report for a participant on arrival.
ArrivalPubs ==
  {NoPub} \cup
  { [st |-> st, kind |-> k, atAttach |-> FALSE, mute |-> 0, enabled |-> TRUE] :
      st \in {"published", "subscribed"}, k \in Kinds }

\* The remote participants the transport has brought into some room so far;
\* a participant object belongs to one room and never comes back.
Arrived == UNION { initialRoster[r] \cup joined[r] : r \in Rooms }

\* ------------------------------------------- Video.connect continuations
\* The notifications of the .then block of joinRoom, in order: held is
\* currentRoom when the block starts, and the block assigns currentRoom
\* after its first notification.
connectThenOut_CompleteFirst(r, ord, pubsIn, held) ==
  <<Notif("RoomConnected", r, Nobody, "n/a", held)>>
    \o localParticipantConnected(r, r).out
    \o <<Notif("ExistingParticipantsReportingComplete", r, Nobody, "n/a", r)>>
    \o Flatten([i \in 1..Len(ord) |->
                  participantConnected(r, ord[i], TRUE, pubsIn[ord[i]], r).out])

connectThenOut(r, ord, pubsIn, held) ==
  <<Notif("RoomConnected", r, Nobody, "n/a", held)>>
    \o localParticipantConnected(r, r).out
    \o Flatten([i \in 1..Len(ord) |->
                  participantConnected(r, ord[i], TRUE, pubsIn[ord[i]], r).out])
    \o <<Notif("ExistingParticipantsReportingComplete", r, Nobody, "n/a", r)>>

\* The calls of that block, in order.
connectThenCalls(r, ord, pubsIn) ==
  <<"notifyOfEvent">>
    \o localParticipantConnected(r, r).calls
    \o Flatten([i \in 1..Len(ord) |->
                  participantConnected(r, ord[i], TRUE, pubsIn[ord[i]], r).calls])
    \o <<"notifyOfEvent">>

\* The .then block of joinRoom: the transport connected room r with the
\* remote participants ord (room.participants, in order) publishing pubsIn.
connectThen(r, ord, pubsIn) ==
  LET att(p) == participantConnected(r, p, TRUE, pubsIn[p], r)
  IN
  /\ roomState[r] = "connecting"
  /\ SeqToSet(ord) \cap Arrived = {}
  /\ \A p \in Remotes : p \notin SeqToSet(ord) => pubsIn[p] = NoPub
  /\ roomState' = [roomState EXCEPT ![r] = "connected"]
  /\ roster' = [roster EXCEPT ![r] = ord]
  /\ initialRoster' = [initialRoster EXCEPT ![r] = SeqToSet(ord)]
  /\ localPub' = [localPub EXCEPT ![r] = [k \in Kinds |-> <<ConnectPub(k)>>]]
  /\ IF NotifyThrows
     THEN \* the first notifyOfEvent throws; .catch rejects with the TypeError
          /\ pub' = [p \in Remotes |->
                       IF p \in SeqToSet(ord) THEN pubsIn[p] ELSE pub[p]]
          /\ last' = Done("connectThen", r, "TypeError", <<>>)
          /\ UNCHANGED <<currentRoom, wired>>
     ELSE /\ currentRoom' = r
          /\ wired' = [wired EXCEPT ![r] = TRUE]
          /\ pub' = [p \in Remotes |->
                       IF p \in SeqToSet(ord) THEN att(p).pub ELSE pub[p]]
          /\ last' = Ran("connectThen", r, "ok",
                         connectThenOut(r, ord, pubsIn, currentRoom),
                         connectThenCalls(r, ord, pubsIn))
  /\ UNCHANGED <<eventCallbacks, currentConnectOptions, defaultConnectOptions,
                 deviceIds, localStorage, nextRoom, joined, tally>>
  /\ UNCHANGED mediaVars

\* A .catch block that reports the failure as a notification and wraps it.
connectCatch_Reports(r, error) ==
  /\ roomState[r] = "connecting"
  /\ roomState' = [roomState EXCEPT ![r] = "failed"]
  /\ last' = Done("connectCatch", <<r, error>>, "ConnectFailed",
                  IF NotifyThrows THEN <<>>
                  ELSE <<Notif("ErrorOccured", r, Nobody, "n/a", currentRoom)>>)
  /\ UNCHANGED engineVars
  /\ UNCHANGED <<nextRoom, wired, roster, initialRoster, joined,
                 pub, localPub, tally>>
  /\ UNCHANGED mediaVars

\* The .catch block of joinRoom: the transport refused room r with error.
connectCatch(r, error) ==
  /\ roomState[r] = "connecting"
  /\ roomState' = [roomState EXCEPT ![r] = "failed"]
  /\ last' = Done("connectCatch", <<r, error>>, error, <<>>)
  /\ UNCHANGED engineVars
  /\ UNCHANGED <<nextRoom, wired, roster, initialRoster, joined,
                 pub, localPub, tally>>
  /\ UNCHANGED mediaVars

\* ------------------------------------------------- native transport events
\* Every native event leaves the engine's own variables alone.
NativeFrame ==
  /\ UNCHANGED engineVars
  /\ UNCHANGED mediaVars
  /\ UNCHANGED <<nextRoom, roomState, wired, initialRoster, localPub>>

\* The listeners a native subscribe of publication slot q reaches, in the
\* transport's order: the publication's "subscribed" (installed when the
\* publication existed at attach), the participant's "trackSubscribed", the
\* room's "trackSubscribed".  A throwing notifyOfEvent ends the dispatch.
onTrackSubscribed(r, p, q) ==
  LET emitters == (IF q.atAttach THEN 1 ELSE 0) + 1
      live == [q EXCEPT !.st = "subscribed", !.mute = 0, !.enabled = TRUE]
  IN IF ~wired[r] THEN [out |-> <<>>, pub |-> live]
     ELSE IF NotifyThrows
     THEN [out |-> <<>>, pub |-> setupTrackMuteEvents(live)]
     ELSE [out |-> Rep(emitters, trackSubscribed(r, p, q.kind, currentRoom)),
           pub |-> [live EXCEPT !.mute = emitters + 1]]

\* The listeners a native unsubscribe reaches: the publication's
\* "unsubscribed" and the participant's "trackUnsubscribed".
onTrackUnsubscribed(r, p, q) ==
  LET emitters == (IF q.atAttach THEN 1 ELSE 0) + 1
      dead == [q EXCEPT !.st = "published", !.mute = 0, !.enabled = TRUE]
  IN IF ~wired[r] \/ NotifyThrows THEN [out |-> <<>>, pub |-> dead]
     ELSE [out |-> Rep(emitters, trackUnsubscribed(r, p, q.kind, currentRoom)),
           pub |-> dead]

\* The participant's "trackPublished" / "trackUnpublished" listeners: the
\* descriptor is { ...publication.track, sid }, and the publication of a
\* track nobody is subscribed to has no track, so no kind is copied.
onTrackPublished(r, p) ==
  IF ~wired[r] \/ NotifyThrows THEN <<>>
  ELSE <<trackSubscribed(r, p, "none", currentRoom)>>

onTrackUnpublished(r, p) ==
  IF ~wired[r] \/ NotifyThrows THEN <<>>
  ELSE <<trackUnsubscribed(r, p, "none", currentRoom)>>

\* The "disabled" / "enabled" listeners setupTrackMuteEvents put on a track.
onTrackDisabled(r, p, q) ==
  IF NotifyThrows THEN <<>>
  ELSE Rep(q.mute, trackUnsubscribed(r, p, q.kind, currentRoom))

onTrackEnabled(r, p, q) ==
  IF NotifyThrows THEN <<>>
  ELSE Rep(q.mute, trackSubscribed(r, p, q.kind, currentRoom))

InRoom(r, p) == roomState[r] = "connected" /\ p \in SeqToSet(roster[r])

NativePublish(r, p, k) ==
  /\ InRoom(r, p)
  /\ pub[p].st = "none"
  /\ pub' = [pub EXCEPT ![p] = [NoPub EXCEPT !.st = "published", !.kind = k]]
  /\ last' = Done("NativePublish", <<r, p>>, "ok", onTrackPublished(r, p))
  /\ UNCHANGED <<roster, joined, tally>>
  /\ NativeFrame

NativeUnpublish(r, p) ==
  /\ InRoom(r, p)
  /\ pub[p].st = "published"
  /\ pub' = [pub EXCEPT ![p] = NoPub]
  /\ last' = Done("NativeUnpublish", <<r, p>>, "ok", onTrackUnpublished(r, p))
  /\ UNCHANGED <<roster, joined, tally>>
  /\ NativeFrame

NativeSubscribe(r, p) ==
  LET res == onTrackSubscribed(r, p, pub[p])
  IN
  /\ InRoom(r, p)
  /\ pub[p].st = "published"
  /\ tally[p].nSub < MaxNative
  /\ pub' = [pub EXCEPT ![p] = res.pub]
  /\ tally' = [tally EXCEPT ![p].nSub = @ + 1,
                            ![p].eSub = @ + Len(res.out)]
  /\ last' = Done("NativeSubscribe", <<r, p>>, "ok", res.out)
  /\ UNCHANGED <<roster, joined>>
  /\ NativeFrame

NativeUnsubscribe(r, p) ==
  LET res == onTrackUnsubscribed(r, p, pub[p])
  IN
  /\ InRoom(r, p)
  /\ pub[p].st = "subscribed"
  /\ pub' = [pub EXCEPT ![p] = res.pub]
  /\ tally' = [tally EXCEPT ![p].nUnsub = @ + 1,
                            ![p].eUnsub = @ + Len(res.out)]
  /\ last' = Done("NativeUnsubscribe", <<r, p>>, "ok", res.out)
  /\ UNCHANGED <<roster, joined>>
  /\ NativeFrame

NativeDisable(r, p) ==
  /\ InRoom(r, p)
  /\ pub[p].st = "subscribed"
  /\ pub[p].enabled
  /\ pub' = [pub EXCEPT ![p].enabled = FALSE]
  /\ last' = Done("NativeDisable", <<r, p>>, "ok", onTrackDisabled(r, p, pub[p]))
  /\ UNCHANGED <<roster, joined, tally>>
  /\ NativeFrame

NativeEnable(r, p) ==
  /\ InRoom(r, p)
  /\ pub[p].st = "subscribed"
  /\ ~pub[p].enabled
  /\ pub' = [pub EXCEPT ![p].enabled = TRUE]
  /\ last' = Done("NativeEnable", <<r, p>>, "ok", onTrackEnabled(r, p, pub[p]))
  /\ UNCHANGED <<roster, joined, tally>>
  /\ NativeFrame

\* The room's "participantConnected" listener is participantConnected
\* itself, called with the participant alone (isRemote defaults to true).
NativeJoin(r, p, q) ==
  LET att == participantConnected(r, p, TRUE, q, currentRoom)
      listening == wired[r] /\ ~NotifyThrows
  IN
  /\ roomState[r] = "connected"
  /\ p \notin Arrived
  /\ q.st # "subscribed"
  /\ roster' = [roster EXCEPT ![r] = Append(@, p)]
  /\ joined' = [joined EXCEPT ![r] = @ \cup {p}]
  /\ pub' = [pub EXCEPT ![p] = IF listening THEN att.pub ELSE q]
  /\ last' = Ran("NativeJoin", <<r, p>>, "ok",
                 IF listening THEN att.out ELSE <<>>,
                 IF listening THEN att.calls ELSE <<>>)
  /\ UNCHANGED tally
  /\ NativeFrame

\* The room's "participantDisconnected" listener.
NativeLeave(r, p) ==
  /\ InRoom(r, p)
  /\ roster' = [roster EXCEPT ![r] = SelectSeq(@, LAMBDA x : x # p)]
  /\ pub' = [pub EXCEPT ![p] = NoPub]
  /\ last' = Done("NativeLeave", <<r, p>>, "ok",
                  IF wired[r] /\ ~NotifyThrows
                  THEN <<participantDisconnected(r, p, currentRoom)>> ELSE <<>>)
  /\ UNCHANGED <<joined, tally>>
  /\ NativeFrame

\* ------------------------------------------------ turnOffMyVideo / Audio
HasRoom == currentRoom \in Rooms

\* A turn-off that reports a track it did not find.

\* The promise executor of turnOffMyVideo (kind "video") and turnOffMyAudio
\* (kind "audio"), which runs to its end inside the call: the promise's
\* outcome, the notifications emitted, and whether the track was stopped.
\* Without a room the executor rejects and then dies on its next line (the
\* TypeError is swallowed by the promise, which is already rejected).
turnOffMy_NotifiesAnyway(kind) ==
  IF ~HasRoom
  THEN [result |-> "RoomMissing", out |-> <<>>, calls |-> <<>>,
        stopped |-> FALSE]
  ELSE IF localPub[currentRoom][kind] = <<>>
  THEN [result |-> "NoLocalTrack",
        out |-> IF NotifyThrows THEN <<>>
                ELSE <<trackUnsubscribed(currentRoom, Local, kind, currentRoom)>>,
        calls |-> IF NotifyThrows THEN <<>> ELSE <<"notifyOfEvent">>,
        stopped |-> FALSE]
  ELSE IF NotifyThrows
  THEN [result |-> "StopError", out |-> <<>>,
        calls |-> <<"unpublishTrack", "stop">>, stopped |-> TRUE]
  ELSE [result |-> "ok",
        out |-> <<trackUnsubscribed(currentRoom, Local, kind, currentRoom)>>,
        calls |-> <<"unpublishTrack", "stop", "notifyOfEvent">>,
        stopped |-> TRUE]

\* A turn-off that notifies before it unpublishes and stops.
turnOffMy_NotifyFirst(kind) ==
  IF ~HasRoom
  THEN [result |-> "RoomMissing", out |-> <<>>, calls |-> <<>>,
        stopped |-> FALSE]
  ELSE IF localPub[currentRoom][kind] = <<>>
  THEN [result |-> "NoLocalTrack", out |-> <<>>, calls |-> <<>>,
        stopped |-> FALSE]
  ELSE IF NotifyThrows
  THEN [result |-> "StopError", out |-> <<>>, calls |-> <<>>, stopped |-> FALSE]
  ELSE [result |-> "ok",
        out |-> <<trackUnsubscribed(currentRoom, Local, kind, currentRoom)>>,
        calls |-> <<"notifyOfEvent", "unpublishTrack", "stop">>,
        stopped |-> TRUE]

turnOffMy(kind) ==
  IF ~HasRoom
  THEN [result |-> "RoomMissing", out |-> <<>>, calls |-> <<>>,
        stopped |-> FALSE]
  ELSE IF localPub[currentRoom][kind] = <<>>
  THEN [result |-> "NoLocalTrack", out |-> <<>>, calls |-> <<>>,
        stopped |-> FALSE]
  ELSE IF NotifyThrows
  THEN [result |-> "StopError", out |-> <<>>,
        calls |-> <<"unpublishTrack", "stop">>, stopped |-> TRUE]
  ELSE [result |-> "ok",
        out |-> <<trackUnsubscribed(currentRoom, Local, kind, currentRoom)>>,
        calls |-> <<"unpublishTrack", "stop", "notifyOfEvent">>,
        stopped |-> TRUE]

\* The local publications after the turn-offs that stopped a track (off:
\* kind -> stopped): each unpublished the first publication of its kind.
UnpublishFirst(off) ==
  IF HasRoom
  THEN [localPub EXCEPT ![currentRoom] =
          [k \in Kinds |-> IF off[k] THEN Tail(@[k]) ELSE @[k]]]
  ELSE localPub

\* The screen-capture tracks after those turn-offs: the first video
\* publication may carry one, and stop() ends it.
StopFirst(off) ==
  IF HasRoom /\ off["video"]
     /\ Head(localPub[currentRoom]["video"]).src = "screen"
  THEN [screenTracks EXCEPT
          ![Head(localPub[currentRoom]["video"]).track] = "stopped"]
  ELSE screenTracks

turnOffMyTrack(kind, op) ==
  LET res == turnOffMy(kind)
      off == [k \in Kinds |-> k = kind /\ res.stopped]
  IN
  /\ localPub' = UnpublishFirst(off)
  /\ screenTracks' = StopFirst(off)
  /\ last' = Ran(op, "none", res.result, res.out, res.calls)
  /\ UNCHANGED engineVars
  /\ UNCHANGED <<nextRoom, roomState, wired, roster,
                 initialRoster, joined, pub, tally>>
  /\ UNCHANGED <<currentScreenTrack, pending>>

turnOffMyVideo == turnOffMyTrack("video", "turnOffMyVideo")

turnOffMyAudio == turnOffMyTrack("audio", "turnOffMyAudio")

\* ------------------------------------------------------------ leaveRoom
\* A leaveRoom that tells the transport to disconnect before it notifies.
leaveRoomRun_DisconnectFirst(v, a) ==
  LET r == currentRoom
      members == IF HasRoom THEN roster[r] ELSE <<>>
  IN [out |-> v.out \o a.out
               \o <<participantDisconnected(r, IF HasRoom THEN Local ELSE Nobody, r)>>
               \o [i \in 1..Len(members) |-> participantDisconnected(r, members[i], r)]
               \o (IF HasRoom THEN <<Notif("Debug", r, Nobody, "n/a", r)>> ELSE <<>>),
      calls |-> v.calls \o a.calls
                 \o (IF HasRoom THEN <<"disconnect">> ELSE <<>>)
                 \o <<"notifyOfEvent">>
                 \o (IF HasRoom THEN Rep(Len(members) + 1, "notifyOfEvent") ELSE <<>>)]

\* What leaveRoom emits and calls, in order, when notifyOfEvent does not
\* throw: v and a are the outcomes of its turnOffMyVideo and turnOffMyAudio.
leaveRoomRun(v, a) ==
  LET r == currentRoom
      members == IF HasRoom THEN roster[r] ELSE <<>>
  IN [out |-> v.out \o a.out
               \o <<participantDisconnected(r, IF HasRoom THEN Local ELSE Nobody, r)>>
               \o [i \in 1..Len(members) |-> participantDisconnected(r, members[i], r)]
               \o (IF HasRoom THEN <<Notif("Debug", r, Nobody, "n/a", r)>> ELSE <<>>),
      calls |-> v.calls \o a.calls
                 \o <<"notifyOfEvent">>
                 \o (IF HasRoom
                     THEN Rep(Len(members) + 1, "notifyOfEvent") \o <<"disconnect">>
                     ELSE <<>>)]

leaveRoom ==
  LET v == turnOffMy("video")
      a == turnOffMy("audio")
      r == currentRoom
      off == [k \in Kinds |-> IF k = "video" THEN v.stopped ELSE a.stopped]
      run == leaveRoomRun(v, a)
  IN
  /\ localPub' = UnpublishFirst(off)
  /\ screenTracks' = StopFirst(off)
  /\ IF NotifyThrows
     THEN \* the first notifyOfEvent throws out of leaveRoom
          /\ last' = Ran("leaveRoom", "none", "TypeError", <<>>, v.calls \o a.calls)
          /\ UNCHANGED <<currentRoom, roomState>>
     ELSE /\ last' = Ran("leaveRoom", "none", "ok", run.out, run.calls)
          /\ IF HasRoom
             THEN /\ roomState' = [roomState EXCEPT ![r] =
                        IF @ = "connected" THEN "closing" ELSE @]
                  /\ currentRoom' = NullRoom
             ELSE UNCHANGED <<currentRoom, roomState>>
  /\ UNCHANGED <<eventCallbacks, currentConnectOptions, defaultConnectOptions,
                 deviceIds, localStorage>>
  /\ UNCHANGED <<nextRoom, wired, roster, initialRoster, joined,
                 pub, tally>>
  /\ UNCHANGED <<currentScreenTrack, pending>>

\* A listener installed with "on": it runs at every emit.
disconnectedOut_Repeats(r, error) ==
  IF ~wired[r] \/ NotifyThrows THEN <<>>
  ELSE <<participantDisconnected(r, Local, currentRoom)>>
         \o [i \in 1..Len(roster[r]) |->
               participantDisconnected(r, roster[r][i], currentRoom)]
         \o <<Notif(IF error = "none" THEN "RoomCompleted" ELSE "ErrorOccured",
                    r, Nobody, "n/a", currentRoom)>>

\* What the room.once("disconnected") listener of room r emits when the
\* room emits "disconnected" (error is "none" when it ended without one):
\* once removes the listener at its first run, so a later emit finds none.
disconnectedOut(r, error) ==
  IF ~wired[r] \/ NotifyThrows \/ roomState[r] = "disconnected" THEN <<>>
  ELSE <<participantDisconnected(r, Local, currentRoom)>>
         \o [i \in 1..Len(roster[r]) |->
               participantDisconnected(r, roster[r][i], currentRoom)]
         \o <<Notif(IF error = "none" THEN "RoomCompleted" ELSE "ErrorOccured",
                    r, Nobody, "n/a", currentRoom)>>

\* The room emits "disconnected".
roomDisconnected(r, error) ==
  /\ roomState[r] \in {"connected", "closing", "disconnected"}
  /\ roomState[r] = "closing" => error = "none"
  /\ roomState' = [roomState EXCEPT ![r] = "disconnected"]
  /\ last' = Done("roomDisconnected", <<r, error>>, "ok", disconnectedOut(r, error))
  /\ UNCHANGED engineVars
  /\ UNCHANGED <<nextRoom, wired, roster, initialRoster, joined,
                 pub, localPub, tally>>
  /\ UNCHANGED mediaVars

\* ------------------------------------------- turnOnMyAudio / turnOnMyVideo
\* The microphone and camera publications among pubs.
Mine(pubs) == SelectSeq(pubs, LAMBDA q : q.src # "screen")

\* The options object currentConnectOptions refers to.
CurrentOptions ==
  IF currentConnectOptions.ref = "own" THEN currentConnectOptions.own
  ELSE defaultConnectOptions

\* The outcome of a promise a later block tries to settle with r: a promise
\* the call block already rejected keeps that rejection.
Outcome(settled, r) == IF settled THEN "NoRoom" ELSE r

CreateCall(kind) ==
  IF kind = "audio" THEN "Video.createLocalAudioTrack"
  ELSE "Video.createLocalVideoTrack"

\* The promise executor of turnOnMyAudio (kind "audio") and turnOnMyVideo
\* (kind "video"), up to the Video.createLocal...Track call.  The reject for
\* an undefined currentRoom does not end the executor, and a null
\* currentRoom passes the typeof test; nothing looks at the tracks already
\* published.  One media operation awaits its promises at a time.
turnOnMy(kind, deviceId, op) ==
  LET noRoom == currentRoom = UndefinedRoom
      co == CurrentOptions
      over == deviceId # "undefined" /\ co[kind].present
      co2 == IF over THEN [co EXCEPT ![kind].deviceId = Explicit(deviceId)] ELSE co
      create == co2[kind].present /\ DevTruthy(co2[kind].deviceId)
  IN
  /\ pending.op = "none"
  /\ IF currentConnectOptions.ref = "undefined"
     THEN \* reading a member of undefined throws inside the executor
          /\ last' = Ran(op, deviceId, Outcome(noRoom, "TypeError"), <<>>, <<>>)
          /\ UNCHANGED <<currentConnectOptions, defaultConnectOptions, pending>>
     ELSE /\ currentConnectOptions' =
               IF currentConnectOptions.ref = "own"
               THEN [currentConnectOptions EXCEPT !.own = co2]
               ELSE currentConnectOptions
          /\ defaultConnectOptions' =
               IF currentConnectOptions.ref = "own"
               THEN defaultConnectOptions ELSE co2
          /\ IF create
             THEN /\ pending' = [NoPending EXCEPT !.op = op, !.stage = "create",
                                                  !.kind = kind, !.settled = noRoom]
                  /\ last' = [Ran(op, deviceId, Outcome(noRoom, "pending"), <<>>,
                                  <<CreateCall(kind)>>)
                                EXCEPT !.sent[kind] = co2[kind].deviceId]
             ELSE /\ UNCHANGED pending
                  /\ last' = Ran(op, deviceId, Outcome(noRoom, "DeviceIdNotFound"),
                                 <<>>, <<>>)
  /\ UNCHANGED <<eventCallbacks, currentRoom, deviceIds, localStorage>>
  /\ UNCHANGED transportVars
  /\ UNCHANGED <<currentScreenTrack, screenTracks>>

turnOnMyAudio(deviceId) == turnOnMy("audio", deviceId, "turnOnMyAudio")

turnOnMyVideo(deviceId) == turnOnMy("video", deviceId, "turnOnMyVideo")

TurnOnOps == {"turnOnMyAudio", "turnOnMyVideo"}

\* The .then of Video.createLocal...Track: publishTrack on the local
\* participant of the room held now.  Without a room the member access
\* throws and the outer .catch rejects.
createLocalThen ==
  /\ pending.op \in TurnOnOps
  /\ pending.stage = "create"
  /\ IF HasRoom
     THEN /\ pending' = [pending EXCEPT !.stage = "publish", !.room = currentRoom]
          /\ last' = Ran("createLocalThen", pending.op,
                         Outcome(pending.settled, "pending"), <<>>, <<"publishTrack">>)
     ELSE /\ pending' = NoPending
          /\ last' = Ran("createLocalThen", pending.op,
                         Outcome(pending.settled, "CreateTrackError"), <<>>, <<>>)
  /\ UNCHANGED engineVars
  /\ UNCHANGED transportVars
  /\ UNCHANGED <<currentScreenTrack, screenTracks>>

\* The .catch of Video.createLocal...Track: the track could not be created.
createLocalCatch ==
  /\ pending.op \in TurnOnOps
  /\ pending.stage = "create"
  /\ pending' = NoPending
  /\ last' = Ran("createLocalCatch", pending.op,
                 Outcome(pending.settled, "CreateTrackError"), <<>>, <<>>)
  /\ UNCHANGED engineVars
  /\ UNCHANGED transportVars
  /\ UNCHANGED <<currentScreenTrack, screenTracks>>

\* publishTrack resolved: the local participant of the room holds the new
\* publication (a camera or microphone track at standard priority, a screen
\* track at the priority asked for), its "trackPublished" event reaches the
\* listener participantConnected installed, and the operation resolves.
publishThen ==
  LET r == pending.room
      screen == pending.op = "startScreenShare"
      q == LocalPublication(
             IF screen THEN "screen"
             ELSE IF pending.kind = "audio" THEN "mic" ELSE "camera",
             pending.track, IF screen THEN "high" ELSE "standard")
  IN
  /\ pending.stage = "publish"
  /\ roomState[r] = "connected"
  /\ localPub' = [localPub EXCEPT ![r][pending.kind] = Append(@, q)]
  /\ pending' = NoPending
  /\ last' = Done("publishThen", pending.op, Outcome(pending.settled, "ok"),
                  IF wired[r] /\ ~NotifyThrows
                  THEN <<trackSubscribed(r, Local, pending.kind, currentRoom)>>
                  ELSE <<>>)
  /\ UNCHANGED engineVars
  /\ UNCHANGED <<nextRoom, roomState, wired, roster, initialRoster, joined,
                 pub, tally>>
  /\ UNCHANGED <<currentScreenTrack, screenTracks>>

\* publishTrack rejected.
publishCatch ==
  /\ pending.stage = "publish"
  /\ pending' = NoPending
  /\ last' = Ran("publishCatch", pending.op,
                 Outcome(pending.settled, "PublishFailed"), <<>>, <<>>)
  /\ UNCHANGED engineVars
  /\ UNCHANGED transportVars
  /\ UNCHANGED <<currentScreenTrack, screenTracks>>

\* ------------------------------------------ startScreenShare / stopScreenShare
\* Every publication of the sequence pubs at priority p.
SetPriority(pubs, p) == [i \in DOMAIN pubs |-> [pubs[i] EXCEPT !.priority = p]]

\* createScreenTrack: a track when the browser can share the screen and the
\* capture is granted; every failure becomes "Screen sharing is not
\* supported".
createScreenTrack(canShare, granted) ==
  IF ~canShare THEN "NotSupported"
  ELSE IF granted THEN "track"
  ELSE "NotSupported"

\* startScreenShare up to the createScreenTrack call; dims tells whether the
\* caller gave height and width.  Omitted dimensions are read from
\* currentConnectOptions.video, which throws when there is no options object.
startScreenShare(dims) ==
  /\ pending.op = "none"
  /\ IF dims = "omitted" /\ currentConnectOptions.ref = "undefined"
     THEN /\ last' = Ran("startScreenShare", dims, "TypeError", <<>>, <<>>)
          /\ UNCHANGED pending
     ELSE /\ pending' = [NoPending EXCEPT !.op = "startScreenShare",
                                          !.stage = "create", !.kind = "video"]
          /\ last' = Ran("startScreenShare", dims, "pending", <<>>,
                         <<"createScreenTrack">>)
  /\ UNCHANGED engineVars
  /\ UNCHANGED transportVars
  /\ UNCHANGED <<currentScreenTrack, screenTracks>>

\* The .then of createScreenTrack with the fresh track t: the engine holds
\* t, lowers every video publication of the local participant and publishes
\* t at high priority.  Without a room the member access throws after t is
\* held and the .catch rejects.
screenCreateThen(t) ==
  /\ pending.op = "startScreenShare"
  /\ pending.stage = "create"
  /\ createScreenTrack(TRUE, TRUE) = "track"
  /\ screenTracks[t] = "none"
  /\ \A u \in ScreenIds : u < t => screenTracks[u] # "none"
  /\ screenTracks' = [screenTracks EXCEPT ![t] = "live"]
  /\ currentScreenTrack' = t
  /\ IF HasRoom
     THEN /\ localPub' = [localPub EXCEPT ![currentRoom]["video"] =
                            SetPriority(@, "low")]
          /\ pending' = [pending EXCEPT !.stage = "publish",
                                        !.room = currentRoom, !.track = t]
          /\ last' = Ran("screenCreateThen", t, "pending", <<>>,
                         Rep(Len(localPub[currentRoom]["video"]), "setPriority")
                           \o <<"publishTrack">>)
     ELSE /\ pending' = NoPending
          /\ last' = Ran("screenCreateThen", t, "ScreenShareError", <<>>, <<>>)
          /\ UNCHANGED localPub
  /\ UNCHANGED engineVars
  /\ UNCHANGED <<nextRoom, roomState, wired, roster, initialRoster, joined,
                 pub, tally>>

\* A .catch that also forgets the screen track held so far.
screenCreateCatch_DropsTrack(canShare, granted) ==
  /\ pending.op = "startScreenShare"
  /\ pending.stage = "create"
  /\ createScreenTrack(canShare, granted) = "NotSupported"
  /\ pending' = NoPending
  /\ currentScreenTrack' = NullTrack
  /\ last' = Ran("screenCreateCatch", <<canShare, granted>>,
                 "ScreenShareUnsupported", <<>>, <<>>)
  /\ UNCHANGED engineVars
  /\ UNCHANGED transportVars
  /\ UNCHANGED screenTracks

\* The .catch of createScreenTrack: capture is unsupported or was refused.
screenCreateCatch(canShare, granted) ==
  /\ pending.op = "startScreenShare"
  /\ pending.stage = "create"
  /\ createScreenTrack(canShare, granted) = "NotSupported"
  /\ pending' = NoPending
  /\ last' = Ran("screenCreateCatch", <<canShare, granted>>,
                 "ScreenShareUnsupported", <<>>, <<>>)
  /\ UNCHANGED engineVars
  /\ UNCHANGED transportVars
  /\ UNCHANGED <<currentScreenTrack, screenTracks>>

\* A stopScreenShare that stops the track but keeps holding it.
stopScreenShare_KeepsReference ==
  /\ IF currentScreenTrack \in ScreenIds
     THEN /\ screenTracks' = [screenTracks EXCEPT ![currentScreenTrack] = "stopped"]
          /\ currentScreenTrack' = currentScreenTrack
          /\ IF HasRoom
             THEN /\ localPub' = [localPub EXCEPT ![currentRoom]["video"] =
                                    SetPriority(@, "high")]
                  /\ last' = Ran("stopScreenShare", "none", "ok", <<>>,
                                 <<"stop">> \o
                                 Rep(Len(localPub[currentRoom]["video"]), "setPriority"))
             ELSE /\ UNCHANGED localPub
                  /\ last' = Ran("stopScreenShare", "none", "StopScreenError",
                                 <<>>, <<"stop">>)
     ELSE /\ last' = Ran("stopScreenShare", "none", "never", <<>>, <<>>)
          /\ UNCHANGED <<currentScreenTrack, screenTracks, localPub>>
  /\ UNCHANGED engineVars
  /\ UNCHANGED <<nextRoom, roomState, wired, roster, initialRoster, joined,
                 pub, tally>>
  /\ UNCHANGED pending

\* A stopScreenShare that raises priorities even when it holds no track.
stopScreenShare_RaisesAnyway ==
  /\ IF currentScreenTrack \in ScreenIds
     THEN /\ screenTracks' = [screenTracks EXCEPT ![currentScreenTrack] = "stopped"]
          /\ currentScreenTrack' = NullTrack
          /\ IF HasRoom
             THEN /\ localPub' = [localPub EXCEPT ![currentRoom]["video"] =
                                    SetPriority(@, "high")]
                  /\ last' = Ran("stopScreenShare", "none", "ok", <<>>,
                                 <<"stop">> \o
                                 Rep(Len(localPub[currentRoom]["video"]), "setPriority"))
             ELSE /\ UNCHANGED localPub
                  /\ last' = Ran("stopScreenShare", "none", "StopScreenError",
                                 <<>>, <<"stop">>)
     ELSE /\ last' = Ran("stopScreenShare", "none", "never", <<>>, <<>>)
          /\ localPub' = IF HasRoom
                         THEN [localPub EXCEPT ![currentRoom]["video"] =
                                 SetPriority(@, "high")]
                         ELSE localPub
          /\ UNCHANGED <<currentScreenTrack, screenTracks>>
  /\ UNCHANGED engineVars
  /\ UNCHANGED <<nextRoom, roomState, wired, roster, initialRoster, joined,
                 pub, tally>>
  /\ UNCHANGED pending

\* stopScreenShare: with a track held it stops the track, clears the
\* reference and raises every video publication of the local participant;
\* without one its promise never settles.
stopScreenShare ==
  /\ IF currentScreenTrack \in ScreenIds
     THEN /\ screenTracks' = [screenTracks EXCEPT ![currentScreenTrack] = "stopped"]
          /\ currentScreenTrack' = NullTrack
          /\ IF HasRoom
             THEN /\ localPub' = [localPub EXCEPT ![currentRoom]["video"] =
                                    SetPriority(@, "high")]
                  /\ last' = Ran("stopScreenShare", "none", "ok", <<>>,
                                 <<"stop">> \o
                                 Rep(Len(localPub[currentRoom]["video"]), "setPriority"))
             ELSE /\ UNCHANGED localPub
                  /\ last' = Ran("stopScreenShare", "none", "StopScreenError",
                                 <<>>, <<"stop">>)
     ELSE /\ last' = Ran("stopScreenShare", "none", "never", <<>>, <<>>)
          /\ UNCHANGED <<currentScreenTrack, screenTracks, localPub>>
  /\ UNCHANGED engineVars
  /\ UNCHANGED <<nextRoom, roomState, wired, roster, initialRoster, joined,
                 pub, tally>>
  /\ UNCHANGED pending

\* ------------------------------------------------------------------ Next
\* The caller's joinRoom arguments: a token and a room name, or none.
Tokens == {"undefined", "token"}
RoomNames == {"undefined", "room"}

\* A connectOptions literal naming both devices.
ExplicitOptions ==
  [given |-> TRUE,
   val |-> [audio |-> Section(Explicit("mic1")), video |-> Section(Explicit("cam1"))]]

\* Publication slots of the participants of the session-level specification.
SessionPubs ==
  {NoPub, [NoPub EXCEPT !.st = "subscribed"]}

\* Session lifecycle: every caller operation on the session, the transport's
\* answers to connect, and the room-level native events.
Next ==
  \/ \E cb \in {"undefined", "null", "registered"} : init(cb)
  \/ \E t \in Tokens, n \in RoomNames :
       /\ nextRoom <= MaxSessions \/ ValidateJoin(t, n) # "none"
       /\ joinRoom(t, n, ExplicitOptions)
  \/ \E r \in Rooms, S \in SUBSET Remotes :
       \E ord \in Orders(S), pubsIn \in [Remotes -> SessionPubs] :
         connectThen(r, ord, pubsIn)
  \/ \E r \in Rooms, e \in TransportErrors : connectCatch(r, e)
  \/ \E r \in Rooms, p \in Remotes, q \in SessionPubs : NativeJoin(r, p, q)
  \/ \E r \in Rooms, p \in Remotes : NativeLeave(r, p)
  \/ turnOffMyVideo
  \/ turnOffMyAudio
  \/ leaveRoom
  \/ \E r \in Rooms, e \in {"none"} \cup TransportErrors : roomDisconnected(r, e)

Spec == Init /\ [][Next]_vars

\* Device preferences: the preference store, every shape of connectOptions,
\* and the connects that read them, in rooms without remote participants.
NextDevices ==
  \/ init("registered")
  \/ \E d \in AudioIds : assignDefaultAudioInputDeviceId(d)
  \/ \E d \in VideoIds : assignDefaultVideoInputDeviceId(d)
  \/ clearDefaultAudioInputDeviceId
  \/ clearDefaultVideoInputDeviceId
  \/ clearAllDefaultMediaDeviceIds
  \/ \E o \in ConnectOptionInputs : joinRoom("token", "room", o)
  \/ \E r \in Rooms : connectThen(r, <<>>, [p \in Remotes |-> NoPub])
  \/ leaveRoom

SpecDevices == Init /\ [][NextDevices]_vars

\* Default media selection: the media module's selectDefaultMedia for both
\* kinds, and the connects that read what it persisted.
NextSelect ==
  \/ init("registered")
  \/ \E k \in Kinds, c \in BOOLEAN :
       \E d \in InputIds(k) : selectDefaultMedia(k, d, c)
  \/ clearAllDefaultMediaDeviceIds
  \/ \E o \in ConnectOptionInputs : joinRoom("token", "room", o)
  \/ \E r \in Rooms : connectThen(r, <<>>, [p \in Remotes |-> NoPub])
  \/ leaveRoom

SpecSelect == Init /\ [][NextSelect]_vars

\* Track events: one session, one remote participant, and every native
\* event of that participant and its track.
TrackRoom == CHOOSE r \in Rooms : \A x \in Rooms : r <= x
TrackRemote == CHOOSE p \in Remotes : \A x \in Remotes : p <= x

NextTracks ==
  \/ init("registered")
  \/ nextRoom = TrackRoom /\ joinRoom("token", "room", ExplicitOptions)
  \/ \E S \in SUBSET {TrackRemote} :
       \E ord \in Orders(S), pubsIn \in [Remotes -> ArrivalPubs] :
         connectThen(TrackRoom, ord, pubsIn)
  \/ \E k \in Kinds : NativePublish(TrackRoom, TrackRemote, k)
  \/ NativeUnpublish(TrackRoom, TrackRemote)
  \/ NativeSubscribe(TrackRoom, TrackRemote)
  \/ NativeUnsubscribe(TrackRoom, TrackRemote)
  \/ NativeDisable(TrackRoom, TrackRemote)
  \/ NativeEnable(TrackRoom, TrackRemote)
  \/ \E q \in ArrivalPubs : NativeJoin(TrackRoom, TrackRemote, q)
  \/ NativeLeave(TrackRoom, TrackRemote)
  \/ turnOffMyVideo
  \/ turnOffMyAudio

SpecTracks == Init /\ [][NextTracks]_vars

\* Local media: one session (the first room) without remote participants, the local track
\* operations and screen sharing with their promise continuations.
DeviceOverrides == {"undefined", "dev2"}
Dimensions == {"given", "omitted"}

\* The local participant of the held room has fewer than n microphone
\* (camera) publications: the exploration asks for no further one beyond.
FewerThan(kind, n) == HasRoom => Len(Mine(localPub[currentRoom][kind])) < n

NextMedia ==
  \/ init("registered")
  \/ nextRoom = TrackRoom /\ joinRoom("token", "room", ExplicitOptions)
  \/ connectThen(TrackRoom, <<>>, [p \in Remotes |-> NoPub])
  \/ \E e \in TransportErrors : connectCatch(TrackRoom, e)
  \/ FewerThan("audio", MaxLocalTracks) /\ turnOnMyAudio("undefined")
  \/ \E d \in DeviceOverrides :
       FewerThan("video", MaxLocalTracks) /\ turnOnMyVideo(d)
  \/ /\ pending.op \in TurnOnOps
     /\ FewerThan(pending.kind, MaxLocalTracks)
     /\ createLocalThen
  \/ createLocalCatch
  \/ publishThen
  \/ publishCatch
  \/ turnOffMyVideo
  \/ turnOffMyAudio
  \/ \E d \in Dimensions : startScreenShare(d)
  \/ \E t \in ScreenIds : screenCreateThen(t)
  \/ \E c \in BOOLEAN, g \in BOOLEAN : screenCreateCatch(c, g)
  \/ stopScreenShare
  \/ leaveRoom

SpecMedia == Init /\ [][NextMedia]_vars

\* Repeated turn-ons: one session without remote participants in which the
\* caller turns its microphone and camera on and off, up to MaxPublished
\* publications of a kind at a time.
NextPublish ==
  \/ init("registered")
  \/ nextRoom = TrackRoom /\ joinRoom("token", "room", ExplicitOptions)
  \/ connectThen(TrackRoom, <<>>, [p \in Remotes |-> NoPub])
  \/ FewerThan("audio", MaxPublished) /\ turnOnMyAudio("undefined")
  \/ FewerThan("video", MaxPublished) /\ turnOnMyVideo("undefined")
  \/ /\ pending.op \in TurnOnOps
     /\ FewerThan(pending.kind, MaxPublished)
     /\ createLocalThen
  \/ createLocalCatch
  \/ publishThen
  \/ publishCatch
  \/ turnOffMyVideo
  \/ turnOffMyAudio

SpecPublish == Init /\ [][NextPublish]_vars

\* ================================================================ claims
\* The session is Connected: the engine holds a room the transport has
\* connected.  It is Idle when it holds none.
Connected == HasRoom /\ roomState[currentRoom] = "connected"

\* A joinRoom input supplies an explicit device identifier for kind k.
ExplicitGiven(options, k) ==
  options.given /\ options.val[k].present /\ options.val[k].deviceId.tag = "id"

OutKinds(out) == [i \in 1..Len(out) |-> out[i].kind]

OutCount(out, kind) == Cardinality({ i \in 1..Len(out) : out[i].kind = kind })

\* C1: a joinRoom call made while the session is Connected fails with
\* SessionAlreadyActive, does not reach Video.connect (no new transport
\* room), and leaves the held room as it was.
C1_SecondConnectRejected ==
  [][ (Connected /\ last'.op = "joinRoom" /\ last'.arg.token # "undefined"
         /\ last'.arg.room # "undefined" /\ ~NotifyThrows)
      => /\ last'.result = "SessionAlreadyActive"
         /\ nextRoom' = nextRoom
         /\ currentRoom' = currentRoom ]_vars

\* C2: joinRoom without a token fails with MissingCredentials, with a token
\* but without a room name with MissingRoomName, with both but without
\* registered handlers with HandlersNotRegistered; a call that fails so
\* reaches no Video.connect, emits nothing, and leaves the held room and
\* every transport room as they were (an Idle session stays Idle).
C2_ValidationFailsClean ==
  [][ last'.op = "joinRoom" =>
        LET a == last'.arg
            res == last'.result
        IN /\ a.token = "undefined" => res = "MissingCredentials"
           /\ (a.token # "undefined" /\ a.room = "undefined")
                => res = "MissingRoomName"
           /\ (a.token # "undefined" /\ a.room # "undefined" /\ NotifyThrows)
                => res = "HandlersNotRegistered"
           /\ (a.token = "undefined" \/ a.room = "undefined" \/ NotifyThrows)
                => /\ nextRoom' = nextRoom
                   /\ roomState' = roomState
                   /\ currentRoom' = currentRoom
                   /\ last'.out = <<>> ]_vars

\* C2's case: joinRoom on a fresh engine without handlers has just failed.
C2_Witness ==
  /\ last.op = "joinRoom"
  /\ last.result = "HandlersNotRegistered"
  /\ currentRoom = UndefinedRoom
  /\ nextRoom = 1

\* C3: the block of a successful connect emits RoomConnected first and
\* once, ExistingParticipantsReportingComplete last and once, and between
\* them exactly one ParticipantConnected for the local participant and for
\* each remote participant of the initial roster; no later block emits
\* ParticipantConnected for the local participant or an initial-roster one.
C3_ConnectOrder ==
  LET out == last.out
      pcs == { i \in 1..Len(out) : out[i].kind = "ParticipantConnected" }
  IN IF last.op = "connectThen" /\ last.result = "ok"
     THEN LET r == last.arg
          IN /\ Len(out) >= 3
             /\ out[1].kind = "RoomConnected" /\ out[1].room = r
             /\ OutCount(out, "RoomConnected") = 1
             /\ out[Len(out)].kind = "ExistingParticipantsReportingComplete"
             /\ out[Len(out)].room = r
             /\ OutCount(out, "ExistingParticipantsReportingComplete") = 1
             /\ { out[i].who : i \in pcs } = {Local} \cup initialRoster[r]
             /\ Cardinality(pcs) = 1 + Cardinality(initialRoster[r])
             /\ \A i \in pcs : out[i].room = r /\ 1 < i /\ i < Len(out)
     ELSE \A i \in pcs :
            out[i].who \notin {Local} \cup initialRoster[out[i].room]

\* C3's case: a connect succeeded in a room with a remote participant
\* whose track was already subscribed.
C3_Witness ==
  /\ last.op = "connectThen"
  /\ last.result = "ok"
  /\ initialRoster[last.arg] # {}
  /\ \E i \in 1..Len(last.out) :
       last.out[i].kind = "ParticipantSubscribedTrack" /\ last.out[i].who # Local

\* C4: whenever RoomConnected is emitted, the engine already holds the room
\* the notification announces.
C4_HeldAtRoomConnected ==
  \A i \in 1..Len(last.out) :
    last.out[i].kind = "RoomConnected" => last.out[i].held = last.out[i].room

\* C5: a joinRoom call that passes the argument checks, supplies no explicit
\* audio device identifier and finds no audio preference in the store fails
\* with a no-audio-device error and does not reach Video.connect; likewise
\* for video when the audio identifier resolves.
NoAudioErrors == {"NoAudioInfo", "NoAudioDevice"}
NoVideoErrors == {"NoVideoInfo", "NoVideoDevice"}

C5_NoDeviceRejected ==
  (last.op = "joinRoom" /\ last.arg.token # "undefined"
     /\ last.arg.room # "undefined" /\ last.result # "HandlersNotRegistered")
  => LET o == last.arg.options
         noAudio == ~ExplicitGiven(o, "audio")
                      /\ localStorage["audioInputDeviceId"] = "null"
         noVideo == ~ExplicitGiven(o, "video")
                      /\ localStorage["videoDeviceId"] = "null"
     IN /\ noAudio => last.result \in NoAudioErrors
        /\ (~noAudio /\ noVideo) => last.result \in NoVideoErrors

\* C6: a joinRoom call that reaches Video.connect without an explicit video
\* device identifier, while the store holds the identifier d that
\* assignDefaultVideoInputDeviceId wrote last, hands d to the transport.
C6_AssignedVideoResolved ==
  (last.op = "joinRoom" /\ last.result = "pending"
     /\ ~ExplicitGiven(last.arg.options, "video")
     /\ localStorage["videoDeviceId"] # "null")
  => last.sent.video = Exact(localStorage["videoDeviceId"])

C8_OneToOne ==
  \A p \in Remotes :
    /\ tally[p].eSub = tally[p].nSub
    /\ tally[p].eUnsub = tally[p].nUnsub

\* C9: a disable event of a remote track emits exactly one
\* ParticipantUnsubscribedTrack, an enable event exactly one
\* ParticipantSubscribedTrack.
C9_MuteOnce ==
  /\ last.op = "NativeDisable"
       => OutKinds(last.out) = <<"ParticipantUnsubscribedTrack">>
  /\ last.op = "NativeEnable"
       => OutKinds(last.out) = <<"ParticipantSubscribedTrack">>

\* C10: every ParticipantSubscribedTrack and ParticipantUnsubscribedTrack
\* notification names a participant and carries a track descriptor with a
\* media-kind tag.
C10_DescriptorHasKind ==
  \A i \in 1..Len(last.out) :
    last.out[i].kind \in {"ParticipantSubscribedTrack",
                          "ParticipantUnsubscribedTrack"}
      => last.out[i].who # Nobody /\ last.out[i].tkind \in Kinds

\* The ParticipantDisconnected notifications among out that name who.
DisconnectedCount(out, who) ==
  Cardinality({ i \in 1..Len(out) :
                  out[i].kind = "ParticipantDisconnected" /\ out[i].who = who })

\* C11: the teardown of a Connected session with local audio and video
\* active, from the leaveRoom call to the end of the room's "disconnected"
\* listener that follows it, emits exactly one ParticipantDisconnected for
\* the local participant and one for each remote participant still in the
\* room, the local one first.
C11_OneDisconnectEach ==
  [][ (/\ last.op = "leaveRoom" /\ last.result = "ok"
       /\ OutCount(last.out, "ParticipantUnsubscribedTrack") = 2
       /\ last'.op = "roomDisconnected"
       /\ roomState[last'.arg[1]] = "closing")
      => LET r == last'.arg[1]
             all == last.out \o last'.out
             pds == SelectSeq(all, LAMBDA n : n.kind = "ParticipantDisconnected")
         IN /\ Len(pds) = 1 + Len(roster[r])
            /\ pds[1].who = Local
            /\ DisconnectedCount(all, Local) = 1
            /\ \A i \in 1..Len(roster[r]) :
                 DisconnectedCount(all, roster[r][i]) = 1 ]_vars

C13_IdleLeaveSilent ==
  [][ (~HasRoom /\ last'.op = "leaveRoom")
      => /\ last'.result = "ok"
         /\ last'.out = <<>>
         /\ last'.calls = <<>>
         /\ roomState' = roomState
         /\ currentRoom' \notin Rooms ]_vars

TurnOffKind(op) == IF op = "turnOffMyVideo" THEN "video" ELSE "audio"
TurnOffOps == {"turnOffMyVideo", "turnOffMyAudio"}

\* C14: a turnOnMyAudio or turnOnMyVideo call made while the session is not
\* Connected is rejected for want of a room and asks for no local track.
C14_TurnOnNeedsSession ==
  [][ (~Connected /\ last'.op \in TurnOnOps)
      => /\ last'.result = "NoRoom"
         /\ last'.calls = <<>> ]_vars

\* C15: turnOffMyVideo (turnOffMyAudio) on a Connected session whose local
\* participant has no video (audio) publication fails for want of a track,
\* emits nothing, and calls neither unpublishTrack nor stop.
C15_TurnOffWithoutTrack ==
  [][ (/\ Connected
       /\ last'.op \in TurnOffOps
       /\ localPub[currentRoom][TurnOffKind(last'.op)] = <<>>)
      => /\ last'.result = "NoLocalTrack"
         /\ last'.out = <<>>
         /\ last'.calls = <<>>
         /\ localPub' = localPub
         /\ screenTracks' = screenTracks ]_vars

\* C15's case: turnOffMyVideo has just failed on a Connected session
\* without a local video publication.
C15_Witness ==
  /\ last.op = "turnOffMyVideo"
  /\ last.result = "NoLocalTrack"
  /\ Connected
  /\ localPub[currentRoom]["video"] = <<>>

\* C16: a turnOffMyVideo / turnOffMyAudio that resolves has unpublished the
\* first local publication of its kind, stopped its track, and after that
\* emitted exactly one ParticipantUnsubscribedTrack whose descriptor is the
\* media kind alone and whose participant is the local participant.
C16_TurnOffSynthesizes ==
  [][ (last'.op \in TurnOffOps /\ last'.result = "ok")
      => LET k == TurnOffKind(last'.op)
         IN /\ HasRoom
            /\ localPub[currentRoom][k] # <<>>
            /\ localPub'[currentRoom][k] = Tail(localPub[currentRoom][k])
            /\ last'.calls = <<"unpublishTrack", "stop", "notifyOfEvent">>
            /\ Len(last'.out) = 1
            /\ last'.out[1].kind = "ParticipantUnsubscribedTrack"
            /\ last'.out[1].tkind = k
            /\ last'.out[1].who = Local ]_vars

\* C16's case: turnOffMyAudio has just resolved and the local participant
\* has no audio publication left.
C16_Witness ==
  /\ last.op = "turnOffMyAudio"
  /\ last.result = "ok"
  /\ HasRoom
  /\ localPub[currentRoom]["audio"] = <<>>

\* The screen track the engine holds is live and published in the held room.
ScreenShareActive ==
  /\ Connected
  /\ currentScreenTrack \in ScreenIds
  /\ screenTracks[currentScreenTrack] = "live"
  /\ \E i \in 1..Len(localPub[currentRoom]["video"]) :
       /\ localPub[currentRoom]["video"][i].src = "screen"
       /\ localPub[currentRoom]["video"][i].track = currentScreenTrack

\* C17: when the .then of createScreenTrack goes on to publish a new track
\* while a screen share is active, the earlier screen track is stopped by
\* the time publishTrack is called.
C17_OldScreenStopped ==
  [][ (/\ ScreenShareActive
       /\ last'.op = "screenCreateThen"
       /\ last'.result = "pending")
      => screenTracks'[currentScreenTrack] = "stopped" ]_vars

\* C18: while a screen share is active, every camera publication of the local
\* participant has priority low and the held screen track's publication has
\* priority high.
C18_PrioritiesWhileSharing ==
  ScreenShareActive
  => \A i \in 1..Len(localPub[currentRoom]["video"]) :
       LET q == localPub[currentRoom]["video"][i]
       IN /\ q.src = "camera" => q.priority = "low"
          /\ (q.src = "screen" /\ q.track = currentScreenTrack)
               => q.priority = "high"

\* C19: a startScreenShare call made while the session is not Connected
\* fails without calling createScreenTrack, and no block of the operation
\* leaves the engine holding a screen track.
C19_ScreenShareNeedsSession ==
  [][ /\ (~Connected /\ last'.op = "startScreenShare")
         => /\ last'.result # "pending"
            /\ last'.calls = <<>>
      /\ (~Connected /\ last'.op = "screenCreateThen")
         => currentScreenTrack' \notin ScreenIds ]_vars

\* C20: when createScreenTrack fails on a Connected session, startScreenShare
\* rejects as unsupported, no publication changes priority, nothing is
\* published, and currentScreenTrack is what it was.
C20_UnsupportedClean ==
  [][ (Connected /\ last'.op = "screenCreateCatch")
      => /\ last'.result = "ScreenShareUnsupported"
         /\ last'.calls = <<>>
         /\ last'.out = <<>>
         /\ localPub' = localPub
         /\ currentScreenTrack' = currentScreenTrack
         /\ screenTracks' = screenTracks ]_vars

\* C20's case: a second startScreenShare has just been refused while the
\* engine holds the screen track of the first.
C20_Witness ==
  /\ last.op = "screenCreateCatch"
  /\ Connected
  /\ currentScreenTrack \in ScreenIds
  /\ screenTracks[currentScreenTrack] = "live"

\* C21: stopScreenShare with a screen track held stops that track and clears
\* the reference, so that a following stopScreenShare finds none; with a room
\* held it resolves and leaves every video publication of the local
\* participant at priority high.
C21_StopScreenShare ==
  [][ (currentScreenTrack \in ScreenIds /\ last'.op = "stopScreenShare")
      => /\ screenTracks'[currentScreenTrack] = "stopped"
         /\ currentScreenTrack' \notin ScreenIds
         /\ Head(last'.calls) = "stop"
         /\ HasRoom
              => /\ last'.result = "ok"
                 /\ Len(localPub'[currentRoom]["video"])
                      = Len(localPub[currentRoom]["video"])
                 /\ \A i \in 1..Len(localPub'[currentRoom]["video"]) :
                      localPub'[currentRoom]["video"][i].priority = "high" ]_vars

\* C21's case: stopScreenShare has just ended an active screen share next
\* to a camera publication, which is back at priority high.
C21_Witness ==
  /\ last.op = "stopScreenShare"
  /\ last.result = "ok"
  /\ currentScreenTrack = NullTrack
  /\ Connected
  /\ \E i \in 1..Len(localPub[currentRoom]["video"]) :
       /\ localPub[currentRoom]["video"][i].src = "camera"
       /\ localPub[currentRoom]["video"][i].priority = "high"
  /\ \E i \in 1..Len(localPub[currentRoom]["video"]) :
       /\ localPub[currentRoom]["video"][i].src = "screen"
       /\ screenTracks[localPub[currentRoom]["video"][i].track] = "stopped"

\* C22: stopScreenShare with no screen track held stops nothing, changes no
\* priority, emits nothing, and leaves the engine and the transport as they
\* were.
C22_StopWithoutShare ==
  [][ (currentScreenTrack \notin ScreenIds /\ last'.op = "stopScreenShare")
      => /\ last'.out = <<>>
         /\ last'.calls = <<>>
         /\ UNCHANGED engineVars
         /\ UNCHANGED transportVars
         /\ UNCHANGED mediaVars ]_vars

\* C22's case: stopScreenShare has just run on a Connected session that
\* shares no screen and has a camera publication.
C22_Witness ==
  /\ last.op = "stopScreenShare"
  /\ last.result = "never"
  /\ Connected
  /\ currentScreenTrack \notin ScreenIds
  /\ localPub[currentRoom]["video"] # <<>>

\* C23: with the handlers of registerCallbacks registered, every
\* notification of every event kind reaches a handler, so each handler runs
\* once per notification of its kind -- the room-completion handler once
\* when the room disconnects without error.
C23_HandlerPerNotification ==
  eventCallbacks = "registered"
  => \A k \in conferenceEvents :
       OutCount(Delivered(last.out), k) = OutCount(last.out, k)

\* C24: a block that notifies while no handlers are registered drops the
\* notification and ends normally: leaveRoom and the connect continuation
\* never end in a TypeError.
C24_UnregisteredDropped ==
  last.op \in {"leaveRoom", "connectThen"} => last.result # "TypeError"

NativeOps ==
  {"NativeJoin", "NativeLeave", "NativePublish", "NativeUnpublish",
   "NativeSubscribe", "NativeUnsubscribe", "NativeDisable", "NativeEnable",
   "roomDisconnected"}

\* C26: once leaveRoom has cleared the held room, no native event of a room
\* delivers a notification to a registered handler.
C26_SilentAfterLeave ==
  (currentRoom = NullRoom /\ last.op \in NativeOps)
  => Delivered(last.out) = <<>>

TrackNotifications ==
  {"ParticipantSubscribedTrack", "ParticipantUnsubscribedTrack"}

\* n is a ParticipantDisconnected and m a track notification naming the
\* participant n names.
TrackAfterDisconnected(n, m) ==
  /\ n.kind = "ParticipantDisconnected"
  /\ m.kind \in TrackNotifications
  /\ m.who = n.who
  /\ m.room = n.room

\* C27: no ParticipantSubscribedTrack or ParticipantUnsubscribedTrack names
\* a participant after a ParticipantDisconnected has named it, neither later
\* in the same block nor in the block that runs next.
C27_NoTrackAfterDisconnected ==
  [][ /\ \A i \in 1..Len(last.out), j \in 1..Len(last'.out) :
           ~TrackAfterDisconnected(last.out[i], last'.out[j])
      /\ \A i \in 1..Len(last'.out), j \in 1..Len(last'.out) :
           i < j => ~TrackAfterDisconnected(last'.out[i], last'.out[j]) ]_vars

\* C28: a leaveRoom that ends a session during an active screen share stops
\* the screen track and clears the held reference, so that an engine
\* without a room holds no live screen track.
C28_LeaveEndsScreenShare ==
  [][ (ScreenShareActive /\ last'.op = "leaveRoom" /\ last'.result = "ok")
      => /\ currentScreenTrack' \notin ScreenIds
         /\ screenTracks'[currentScreenTrack] = "stopped" ]_vars

\* C29: a joinRoom call made while an earlier Video.connect is still in
\* flight is rejected and creates no further transport room.
C29_OverlappingConnectRejected ==
  [][ ((\E r \in Rooms : roomState[r] = "connecting") /\ last'.op = "joinRoom")
      => /\ last'.result # "pending"
         /\ nextRoom' = nextRoom ]_vars

TurnOnKind(op) == IF op = "turnOnMyVideo" THEN "video" ELSE "audio"

\* C30: a turnOnMyAudio / turnOnMyVideo call on a Connected session asks
\* for exactly one local track, with the device identifier it was given or,
\* given none, the one the session connected with (every session here
\* connects with ExplicitOptions); its continuation publishes at most once,
\* and a failed acquisition or publication rejects and calls nothing more.
C30_TurnOnAcquiresOnce ==
  /\ (Connected /\ last.op \in TurnOnOps /\ last.calls # <<>>)
       => LET k == TurnOnKind(last.op)
          IN /\ last.calls = <<CreateCall(k)>>
             /\ last.sent[k] = IF last.arg # "undefined" THEN Explicit(last.arg)
                               ELSE ExplicitOptions.val[k].deviceId
  /\ last.op = "createLocalThen" => last.calls \in {<<>>, <<"publishTrack">>}
  /\ last.op \in {"createLocalCatch", "publishCatch"}
       => last.calls = <<>> /\ last.result \notin {"ok", "pending"}

\* The first rejection among the two turn-offs leaveRoom starts ("ok": both
\* resolved).
FirstTeardownError ==
  IF turnOffMy("video").result # "ok" THEN turnOffMy("video").result
  ELSE turnOffMy("audio").result

\* C31: when the video or audio turn-off of a leaveRoom on a Connected
\* session fails, leaveRoom still notifies, disconnects the room and leaves
\* the engine without a room, and it reports the first failure to its caller.
C31_TeardownErrorReported ==
  [][ (/\ Connected /\ eventCallbacks = "registered"
       /\ last'.op = "leaveRoom"
       /\ FirstTeardownError # "ok")
      => /\ \E i \in 1..Len(last'.calls) : last'.calls[i] = "disconnect"
         /\ currentRoom' \notin Rooms
         /\ last'.result = FirstTeardownError ]_vars

\* C34: the promise of every stopScreenShare call settles.
C34_StopScreenShareSettles ==
  last.op = "stopScreenShare" => last.result # "never"

\* C35: once the room the engine holds has emitted "disconnected" without a
\* leaveRoom call, turnOffMyVideo and turnOffMyAudio fail for want of a room.
C35_IdleAfterTransportEnd ==
  [][ (/\ HasRoom /\ roomState[currentRoom] = "disconnected"
       /\ last'.op \in TurnOffOps)
      => last'.result = "RoomMissing" ]_vars

\* C36: a Video.connect that was in flight when leaveRoom returned does not
\* put the session into Connected when it resolves.
C36_StaysIdleAfterLeave ==
  [][ (/\ last.op = "leaveRoom" /\ last.result = "ok"
       /\ last'.op = "connectThen")
      => ~Connected' ]_vars

\* C37: after a stopScreenShare that resolves, the screen track it stopped
\* is not among the video publications of the local participant.
C37_StoppedScreenUnpublished ==
  [][ (/\ HasRoom /\ currentScreenTrack \in ScreenIds
       /\ last'.op = "stopScreenShare" /\ last'.result = "ok")
      => \A i \in 1..Len(localPub'[currentRoom]["video"]) :
           localPub'[currentRoom]["video"][i].track # currentScreenTrack ]_vars

\* The publications of source src among pubs.
From(pubs, src) == SelectSeq(pubs, LAMBDA q : q.src = src)

\* C38: turnOffMyVideo on a Connected session leaves every screen
\* publication and every screen track as it was, and fails for want of a
\* track when the local participant publishes no camera track.
C38_TurnOffSparesScreen ==
  [][ (Connected /\ last'.op = "turnOffMyVideo")
      => LET v == localPub[currentRoom]["video"]
         IN /\ From(localPub'[currentRoom]["video"], "screen") = From(v, "screen")
            /\ screenTracks' = screenTracks
            /\ From(v, "camera") = <<>> => last'.result = "NoLocalTrack" ]_vars

\* The notifications of kind among out that name who.
NamedCount(out, kind, who) ==
  Cardinality({ i \in 1..Len(out) : out[i].kind = kind /\ out[i].who = who })

\* C32: when participantConnected attaches to a participant, it emits one
\* ParticipantSubscribedTrack for each publication that is subscribed or
\* holds its track and none for any other; for a remote participant the mute
\* listeners go on the live track right before that notification, and for
\* the local participant no mute listeners are installed.
C32_AttachNotifiesLiveTracks ==
  /\ (last.op = "connectThen" /\ last.result = "ok")
       => LET r == last.arg
              ord == roster[r]
              live(p) == pub[p].st = "subscribed"
              remote(p) ==
                <<"notifyOfEvent">>
                  \o (IF live(p) THEN <<"setupTrackMuteEvents", "notifyOfEvent">>
                      ELSE <<>>)
          IN /\ last.calls =
                  <<"notifyOfEvent">> \o Rep(1 + Cardinality(Kinds), "notifyOfEvent")
                    \o Flatten([i \in 1..Len(ord) |-> remote(ord[i])])
                    \o <<"notifyOfEvent">>
             /\ NamedCount(last.out, "ParticipantSubscribedTrack", Local)
                  = Cardinality(Kinds)
             /\ \A p \in SeqToSet(ord) :
                  /\ NamedCount(last.out, "ParticipantSubscribedTrack", p)
                       = IF live(p) THEN 1 ELSE 0
                  /\ pub[p].mute = IF live(p) THEN 1 ELSE 0
  /\ (last.op = "NativeJoin" /\ last.out # <<>>)
       => LET p == last.arg[2]
          IN /\ pub[p].st # "subscribed"
             /\ last.calls = <<"notifyOfEvent">>
             /\ NamedCount(last.out, "ParticipantSubscribedTrack", p) = 0
             /\ pub[p].mute = 0

\* C32's case: a connect has just attached to a remote participant whose
\* track was subscribed and whose track now carries one pair of mute
\* listeners.
C32_Witness ==
  /\ last.op = "connectThen"
  /\ last.result = "ok"
  /\ \E i \in 1..Len(last.calls) : last.calls[i] = "setupTrackMuteEvents"
  /\ \E p \in SeqToSet(roster[last.arg]) :
       pub[p].st = "subscribed" /\ pub[p].mute = 1 /\ pub[p].atAttach

C39_OneTrackPerKind ==
  /\ \A r \in Rooms, k \in Kinds : Len(Mine(localPub[r][k])) <= 1
  /\ (last.op \in TurnOffOps /\ last.result = "ok")
       => Mine(localPub[currentRoom][TurnOffKind(last.op)]) = <<>>

\* C40: the first joinRoom that resolves device identifiers, made right after
\* a selectDefaultMedia of kind k that persisted identifier d and supplying
\* no explicit identifier for k, hands d to Video.connect for k.
C40_SelectedDefaultResolved ==
  [][ (/\ last.op = "selectDefaultMedia" /\ last.result = "ok"
       /\ ~deviceIds.fetched
       /\ last'.op = "joinRoom" /\ last'.result = "pending"
       /\ ~ExplicitGiven(last'.arg.options, last.arg[1]))
      => last'.sent[last.arg[1]] = Exact(last.arg[2]) ]_vars

====
